---- MODULE Spec2Model ----
(***************************************************************************)
(* ExperimentSimulation of examples/DissExp1_Simulation.cc: trajectories   *)
(* are generated, agents are registered with the RVO simulator, and the    *)
(* run loop pushes a preferred velocity per agent, advances the simulator  *)
(* and writes sampled rows to simulation_output.csv.                       *)
(*                                                                         *)
(* Numbers.  Positions are fixed-point integers counting 1/PosUnit of a    *)
(* length unit; velocities are integers in length units per second.  The   *)
(* time step is 1/TimeStepHz seconds.  Dividing a position difference by   *)
(* the time step and multiplying a velocity by it are written out as the   *)
(* code computes them.                                                     *)
(***************************************************************************)
EXTENDS Integers, Sequences, FiniteSets, TLC

\* ---------------------------------------------------------------- bounds

\* Samples generateSampleData produces per trajectory (the code's 500,
\* scaled down; more than one sampling interval so two ticks are sampled).
GenSteps == 12
\* Calls a client of the class makes of each kind (SpecAPI).
MaxLoads == 2
MaxSetups == 2
MaxRuns == 1
\* Advances in which the simulator makes an agent give way (Spec).
MaxAvoid == 1
\* Width in bits of the unsigned size type the model wraps at; wider than
\* every int the model holds.
SizeBits == 16
\* Longest trajectory and largest tick handed to the estimator (SpecEst).
MaxLen == 3
MaxTick == 4
\* How often the file system may refuse the output stream (SpecIO).
MaxIoFaults == 1

\* ------------------------------------------------------ program constants

TimeStepHz == 90
MAX_SPEED == 2
MIN_X == 10
MIN_Y == 10
MAX_X == 100
MAX_Y == 100
NumAvatars == 10
GoalHandle == 11
SampleEvery == 10

\* Positions are held in units of one time step's worth of unit speed.
PosUnit == TimeStepHz

\* ---------------------------------------------------------------- vectors

Zero == <<0, 0>>

VAdd(a, b) == <<a[1] + b[1], a[2] + b[2]>>

VSub(a, b) == <<a[1] - b[1], a[2] - b[2]>>

Dot(a, b) == a[1] * b[1] + a[2] * b[2]

\* Division rounding toward zero, as a float-to-grid truncation does.
TruncDiv(a, b) == IF a >= 0 THEN a \div b ELSE -((-a) \div b)

RECURSIVE SqrtSearch(_, _, _)
SqrtSearch(n, lo, hi) ==
    IF lo >= hi THEN lo
    ELSE LET mid == (lo + hi + 1) \div 2
         IN  IF mid * mid <= n THEN SqrtSearch(n, mid, hi)
             ELSE SqrtSearch(n, lo, mid - 1)

\* Largest r with r * r <= n.
ISqrt(n) == SqrtSearch(n, 0, IF n < 46340 THEN n ELSE 46340)

\* RVO::abs: the Euclidean norm.
Abs(v) == ISqrt(Dot(v, v))

\* (a / TIME_STEP) for a position difference a: a velocity.
DivTimeStep(a) == <<TruncDiv(a[1] * TimeStepHz, PosUnit),
                    TruncDiv(a[2] * TimeStepHz, PosUnit)>>

\* (v * timeStep) for a velocity v: a position difference.
MulTimeStep(v) == <<TruncDiv(v[1] * PosUnit, TimeStepHz),
                    TruncDiv(v[2] * PosUnit, TimeStepHz)>>

\* An int converted to the unsigned size type.
SizeMod == 2 ^ SizeBits

ToSizeT(n) == n % SizeMod

\* ------------------------------------------------------------------ state

VARIABLES
    participantData,  \* AgentTrajectory: [positions |-> sequence of points]
    avatarData,       \* std::map key -> AgentTrajectory
    currentStep,
    maxSteps,
    agents,           \* sim's agents; handle h is agents[h + 1]
    outputFile,       \* rows of simulation_output.csv after the header
    pc,               \* position inside runSimulation, "idle" outside it
    logIdx,           \* i of the logging loop
    mainPc,           \* position of the caller
    nLoads, nSetups, nRuns, nCompleted,
    pushLog,          \* setAgentPrefVelocity calls of the latest updateAgentPositions
    stepTrace,        \* currentStep at each doStep of the current run
    avoidLeft,        \* advances in which an agent may still give way
    fault,            \* undefined behaviour met: "none", "stray", "crash"
    est,              \* the latest direct calculatePreferredVelocity call
    ioLeft,           \* stream failures the file system may still cause
    notice            \* "Warning: Using generated sample data" was printed

vars == <<participantData, avatarData, currentStep, maxSteps, agents,
          outputFile, pc, logIdx, mainPc, nLoads, nSetups, nRuns, nCompleted,
          pushLog, stepTrace, avoidLeft, fault, est, ioLeft, notice>>

\* ---------------------------------------------------- generateSampleData

\* "A" + std::to_string(avatar) + "P"
AvatarKey(avatar) == "A" \o ToString(avatar) \o "P"

Avatars == 1..NumAvatars

\* std::sin and std::cos of the whole radians 1..10, in thousandths.
SinMilli == <<841, 909, 141, -757, -959, -279, 657, 989, 412, -544>>

CosMilli == <<540, -416, -990, -654, 284, 960, 754, -146, -911, -839>>

\* std::sin(phase + num/den) in thousandths, phase a whole number of radians
\* in 0..10 and num/den the small part the tick adds (first order in it).
SinAt(phase, num, den) ==
    IF phase = 0 THEN TruncDiv(1000 * num, den)
    ELSE SinMilli[phase] + TruncDiv(CosMilli[phase] * num, den)

\* amp * std::sin(...) as a position.
SinPos(amp, phase, num, den) ==
    TruncDiv(amp * PosUnit * SinAt(phase, num, den), 1000)

\* Sample i of the participant: t = i * TIME_STEP,
\* x = MIN_X + 5 + 2 sin(t * 0.5), y = MIN_Y + (MAX_Y - MIN_Y) * (i / maxSteps).
ParticipantSample(i, n) ==
    <<PosUnit * (MIN_X + 5) + SinPos(2, 0, i, 2 * TimeStepHz),
      PosUnit * MIN_Y + TruncDiv((MAX_Y - MIN_Y) * PosUnit * i, n)>>

\* Sample i of avatar a: offsetX = (a - 5.5) * 2, startY = MAX_Y - 10,
\* x = MIN_X + 30 + offsetX + sin(t * 0.3 + a),
\* y = startY - (MAX_Y - MIN_Y) * 0.8 * (i / maxSteps).
AvatarSample(a, i, n) ==
    <<PosUnit * (MIN_X + 30 + 2 * a - 11) + SinPos(1, a, 3 * i, 10 * TimeStepHz),
      PosUnit * (MAX_Y - 10) - TruncDiv((MAX_Y - MIN_Y) * 8 * PosUnit * i, 10 * n)>>

\* The positions vector of a key the map does not hold yet is empty.
PositionsOf(data, key) ==
    IF key \in DOMAIN data THEN data[key].positions ELSE <<>>

\* The push_back loops: n samples appended to what the vectors already hold.
GeneratedParticipant(old, n) ==
    [positions |-> old.positions \o [i \in 1..n |-> ParticipantSample(i - 1, n)]]

GeneratedAvatars(old, n) ==
    [key \in DOMAIN old \cup {AvatarKey(a) : a \in Avatars} |->
        IF \E a \in Avatars : key = AvatarKey(a)
        THEN LET a == CHOOSE b \in Avatars : key = AvatarKey(b)
             IN  [positions |-> PositionsOf(old, key) \o
                                [i \in 1..n |-> AvatarSample(a, i - 1, n)]]
        ELSE old[key]]

generateSampleData ==
    /\ maxSteps' = GenSteps
    /\ participantData' = GeneratedParticipant(participantData, GenSteps)
    /\ avatarData' = GeneratedAvatars(avatarData, GenSteps)
    /\ nLoads' = nLoads + 1

\* ---------------------------------------------------------- setupSimulation

\* sim->addAgent(position) under the defaults of the constructor.
NewAgent(position) ==
    [position |-> position, velocity |-> Zero, prefVelocity |-> Zero,
     maxSpeed |-> MAX_SPEED]

\* What an agent is registered for: the code holds this in the order of its
\* addAgent calls only, the model writes it on the agent.
ParticipantRole == "participant"
GoalRole == "goal"
RegisteredAs(role, agent) ==
    [position |-> agent.position, velocity |-> agent.velocity,
     prefVelocity |-> agent.prefVelocity, maxSpeed |-> agent.maxSpeed,
     role |-> role]

\* goalPos(MIN_X, std::sqrt(9*9 + 11*11) + MIN_Y)
GoalPos == <<PosUnit * MIN_X,
             ISqrt((9 * 9 + 11 * 11) * PosUnit * PosUnit) + PosUnit * MIN_Y>>

\* The avatars the loop registers, in the order it visits them.
RECURSIVE AvatarAgents(_, _)
AvatarAgents(data, avatar) ==
    IF avatar > NumAvatars THEN <<>>
    ELSE LET key == AvatarKey(avatar)
             this == IF key \in DOMAIN data /\ data[key].positions # <<>>
                     THEN <<RegisteredAs(key,
                                         NewAgent(data[key].positions[1]))>>
                     ELSE <<>>
         IN  this \o AvatarAgents(data, avatar + 1)

ParticipantAgents(data) ==
    IF data.positions # <<>>
    THEN <<RegisteredAs(ParticipantRole, NewAgent(data.positions[1]))>>
    ELSE <<>>

\* The goal registered without setAgentMaxSpeed.
GoalAgentsDefaultSpeed == <<RegisteredAs(GoalRole, NewAgent(GoalPos))>>

\* goalId = addAgent(goalPos); setAgentMaxSpeed(goalId, 0.0f)
GoalAgents ==
    <<[RegisteredAs(GoalRole, NewAgent(GoalPos)) EXCEPT !.maxSpeed = 0]>>

\* The goal registered before the moving agents.
RegisteredGoalFirst(pData, aData) ==
    GoalAgents \o ParticipantAgents(pData) \o AvatarAgents(aData, 1)

\* Every addAgent call of one setupSimulation, in call order.
Registered(pData, aData) ==
    ParticipantAgents(pData) \o AvatarAgents(aData, 1) \o GoalAgents

setupSimulation ==
    /\ agents' = agents \o Registered(participantData, avatarData)
    /\ nSetups' = nSetups + 1

\* ------------------------------------------------ calculatePreferredVelocity

\* currentStep >= trajectory.positions.size() - 1, compared as unsigned.
PastLastSample(trajectory, step) ==
    ToSizeT(step) >= ToSizeT(Len(trajectory.positions) - 1)

\* positions[currentStep] and positions[currentStep + 1] both exist.
ReadsInBounds(trajectory, step) ==
    /\ step >= 0
    /\ step + 1 <= Len(trajectory.positions) - 1

\* What a read outside the vector may hand back.
Garbage == {Zero, <<PosUnit, -PosUnit>>}

\* The estimator with the difference taken the wrong way round
\* (currentPos - nextPos).
calculatePreferredVelocityReversed(trajectory, step) ==
    IF PastLastSample(trajectory, step)
    THEN {[velocity |-> Zero, reads |-> {}, fault |-> "none"]}
    ELSE IF ReadsInBounds(trajectory, step)
    THEN {[velocity |-> DivTimeStep(VSub(trajectory.positions[step + 1],
                                        trajectory.positions[step + 2])),
           reads |-> {step, step + 1}, fault |-> "none"]}
    ELSE {[velocity |-> Zero, reads |-> {step}, fault |-> "crash"]}

\* The estimator without its test for the last sample: at the last tick of a
\* trajectory it reads positions[currentStep + 1] past the end (here a read
\* that hands back what positions[currentStep] holds).
calculatePreferredVelocityUnguarded(trajectory, step) ==
    IF ReadsInBounds(trajectory, step)
    THEN {[velocity |-> DivTimeStep(VSub(trajectory.positions[step + 2],
                                        trajectory.positions[step + 1])),
           reads |-> {step, step + 1}, fault |-> "none"]}
    ELSE {[velocity |-> Zero, reads |-> {step, step + 1}, fault |-> "stray"]}

\* The results the call can produce: [velocity, reads, fault].  A read outside
\* the vector is undefined: it crashes or yields whatever lies there.
calculatePreferredVelocity(trajectory, step) ==
    IF PastLastSample(trajectory, step)
    THEN {[velocity |-> Zero, reads |-> {}, fault |-> "none"]}
    ELSE IF ReadsInBounds(trajectory, step)
    THEN {[velocity |-> DivTimeStep(VSub(trajectory.positions[step + 2],
                                        trajectory.positions[step + 1])),
           reads |-> {step, step + 1}, fault |-> "none"]}
    ELSE {[velocity |-> DivTimeStep(VSub(g, h)), reads |-> {step, step + 1},
           fault |-> "stray"] : g \in Garbage, h \in Garbage}
         \cup {[velocity |-> Zero, reads |-> {step}, fault |-> "crash"]}

\* ------------------------------------------------------ updateAgentPositions

\* The guard asking for the next sample too (currentStep + 1 < size): an agent
\* is skipped at the last tick of its trajectory.
HasSampleAtNext(trajectory, step) ==
    ToSizeT(step + 1) < ToSizeT(Len(trajectory.positions))

\* currentStep < positions.size(), compared as unsigned.
HasSampleAt(trajectory, step) == ToSizeT(step) < ToSizeT(Len(trajectory.positions))

\* One setAgentPrefVelocity call per result the estimator can produce: the
\* handle written in the code, the trajectory the velocity is for, and the
\* samples the estimator read out of how many.
PushesFor(handle, role, trajectory, step) ==
    {<<[handle |-> handle, velocity |-> o.velocity, fault |-> o.fault,
        role |-> role, reads |-> o.reads,
        size |-> Len(trajectory.positions)]>> :
        o \in calculatePreferredVelocity(trajectory, step)}

\* The calls for the participant (ID 0), or none.
ParticipantPushes(data, step) ==
    IF HasSampleAt(data, step)
    THEN PushesFor(0, ParticipantRole, data, step)
    ELSE {<<>>}

\* The calls of the avatar loop (IDs 1-10), in order.
RECURSIVE AvatarPushes(_, _, _)
AvatarPushes(data, step, avatar) ==
    IF avatar > NumAvatars THEN {<<>>}
    ELSE LET key == AvatarKey(avatar)
             this == IF key \in DOMAIN data /\ HasSampleAt(data[key], step)
                     THEN PushesFor(avatar, key, data[key], step)
                     ELSE {<<>>}
         IN  {t \o r : t \in this, r \in AvatarPushes(data, step, avatar + 1)}

\* The call for the goal agent (ID 11).
GoalPushes ==
    {<<[handle |-> GoalHandle, velocity |-> Zero, fault |-> "none",
        role |-> GoalRole, reads |-> {}, size |-> 0]>>}

\* Every sequence of setAgentPrefVelocity calls one updateAgentPositions can
\* issue at this tick.
IntendedPushes(pData, aData, step) ==
    {p \o a \o g : p \in ParticipantPushes(pData, step),
                   a \in AvatarPushes(aData, step, 1), g \in GoalPushes}

\* agents_[agentNo] of a handle never registered is undefined: per mode the
\* first such call crashes, or each is a stray write that leaves the
\* registered agents alone.
Unregistered(push, ags) == push.handle >= Len(ags)

Crashes(push, mode, ags) ==
    \/ push.fault = "crash"
    \/ mode = "crash" /\ Unregistered(push, ags)

\* How many of the calls run before one crashes.
CallsMade(pushes, mode, ags) ==
    LET crashing == {k \in 1..Len(pushes) : Crashes(pushes[k], mode, ags)}
    IN  IF crashing = {} THEN Len(pushes)
        ELSE (CHOOSE k \in crashing : \A j \in crashing : k <= j) - 1

\* The calls applied in order: the agents afterwards, the calls made and the
\* undefined behaviour met.
ApplyPushes(pushes, mode, ags) ==
    LET made == CallsMade(pushes, mode, ags)
        callsTo(i) == {k \in 1..made : pushes[k].handle = i - 1}
        lastTo(i) == CHOOSE k \in callsTo(i) : \A j \in callsTo(i) : j <= k
    IN  [agents |-> [i \in 1..Len(ags) |->
                        IF callsTo(i) = {} THEN ags[i]
                        ELSE [ags[i] EXCEPT
                                 !.prefVelocity = pushes[lastTo(i)].velocity]],
         log |-> [k \in 1..made |->
                     [handle |-> pushes[k].handle,
                      velocity |-> pushes[k].velocity,
                      landed |-> ~Unregistered(pushes[k], ags),
                      role |-> pushes[k].role,
                      reads |-> pushes[k].reads,
                      size |-> pushes[k].size]],
         fault |-> IF made < Len(pushes) THEN "crash"
                   ELSE IF \E k \in 1..made :
                               \/ Unregistered(pushes[k], ags)
                               \/ pushes[k].fault = "stray"
                        THEN "stray"
                        ELSE "none"]

\* updateAgentPositions registering the goal anew at every tick before it
\* pushes the velocities.
updateAgentPositionsAddingGoal(after) ==
    IF currentStep >= maxSteps
    THEN /\ pushLog' = <<>>
         /\ pc' = after
         /\ UNCHANGED <<agents, fault>>
    ELSE \E pushes \in IntendedPushes(participantData, avatarData, currentStep),
            mode \in {"crash", "stray"} :
            LET r == ApplyPushes(pushes, mode, agents \o GoalAgents)
            IN  /\ agents' = r.agents
                /\ pushLog' = r.log
                /\ fault' = IF r.fault = "none" THEN fault ELSE r.fault
                /\ pc' = IF r.fault = "crash" THEN "crashed" ELSE after

\* updateAgentPositions, control going to `after` when it returns.
updateAgentPositions(after) ==
    IF currentStep >= maxSteps
    THEN /\ pushLog' = <<>>
         /\ pc' = after
         /\ UNCHANGED <<agents, fault>>
    ELSE \E pushes \in IntendedPushes(participantData, avatarData, currentStep),
            mode \in {"crash", "stray"} :
            LET r == ApplyPushes(pushes, mode, agents)
            IN  /\ agents' = r.agents
                /\ pushLog' = r.log
                /\ fault' = IF r.fault = "none" THEN fault ELSE r.fault
                /\ pc' = IF r.fault = "crash" THEN "crashed" ELSE after

\* ------------------------------------------------------------- sim->doStep

Magnitude(a) == IF a >= 0 THEN a ELSE -a

\* A velocity no faster than maxSpeed, in the direction of the preferred one:
\* the preferred one if it is slow enough, else scaled down by a length at
\* least its norm and cut to the grid.
LimitSpeed(v, maxSpeed) ==
    IF Dot(v, v) <= maxSpeed * maxSpeed THEN v
    ELSE <<TruncDiv(v[1] * maxSpeed, Magnitude(v[1]) + Magnitude(v[2])),
           TruncDiv(v[2] * maxSpeed, Magnitude(v[1]) + Magnitude(v[2]))>>

\* The agents that can give way in this advance: none (0), or one that would
\* otherwise move.
GiveWayChoices ==
    {0} \cup (IF avoidLeft > 0
              THEN {k \in 1..Len(agents) :
                       LimitSpeed(agents[k].prefVelocity, agents[k].maxSpeed) # Zero}
              ELSE {})

\* One agent advanced by one time step at its new velocity.
Advanced(agent, yields) ==
    LET v == IF yields THEN Zero
             ELSE LimitSpeed(agent.prefVelocity, agent.maxSpeed)
    IN  [agent EXCEPT !.velocity = v,
                      !.position = VAdd(agent.position, MulTimeStep(v))]

doStep(k) == [i \in 1..Len(agents) |-> Advanced(agents[i], i = k)]

\* ------------------------------------------------------------ runSimulation

\* The row written from getAgentPrefVelocity instead of getAgentVelocity.
OutputRowPreferred(step, i) ==
    [step |-> step, agent_id |-> i,
     x |-> agents[i + 1].position[1], y |-> agents[i + 1].position[2],
     vx |-> agents[i + 1].prefVelocity[1], vy |-> agents[i + 1].prefVelocity[2],
     speed |-> 0]

\* The logging loop running from the last agent down.
OutputRowDescending(step, i) ==
    [step |-> step, agent_id |-> Len(agents) - 1 - i,
     x |-> agents[Len(agents) - i].position[1],
     y |-> agents[Len(agents) - i].position[2],
     vx |-> agents[Len(agents) - i].velocity[1],
     vy |-> agents[Len(agents) - i].velocity[2],
     speed |-> Abs(agents[Len(agents) - i].velocity)]

\* One row of the file: step, agent_id, x, y, vx, vy, speed.
OutputRow(step, i) ==
    [step |-> step, agent_id |-> i,
     x |-> agents[i + 1].position[1], y |-> agents[i + 1].position[2],
     vx |-> agents[i + 1].velocity[1], vy |-> agents[i + 1].velocity[2],
     speed |-> Abs(agents[i + 1].velocity)]

\* Sampling the tick before each multiple of 10.
IsSampledOffByOne(step) == (step + 1) % SampleEvery = 0

\* currentStep % 10 == 0
IsSampled(step) == step % SampleEvery = 0

\* The loop running one tick too many (currentStep <= maxSteps).
LoopCondInclusive(step) == step <= maxSteps

\* The test of the for loop.
LoopCond(step) == step < maxSteps

\* What opening or writing the file stream can come to: TRUE when it works,
\* FALSE when the file system refuses and the stream's failbit is set.
StreamOutcomes == IF ioLeft > 0 THEN {TRUE, FALSE} ELSE {TRUE}

\* std::ofstream outputFile("simulation_output.csv"), the header row, and
\* currentStep = 0 with the first test of the loop.  The stream is never
\* tested: when it cannot be opened the file is left as it was and the run
\* goes on with the failbit set.
runSimulation ==
    /\ \E ok \in StreamOutcomes :
          /\ outputFile' = IF ok
                               THEN [open |-> TRUE, header |-> TRUE,
                                     rows |-> <<>>, failed |-> FALSE]
                               ELSE [outputFile EXCEPT !.open = FALSE,
                                                       !.failed = TRUE]
          /\ ioLeft' = IF ok THEN ioLeft ELSE ioLeft - 1
    /\ currentStep' = 0
    /\ pc' = IF LoopCond(0) THEN "update" ELSE "close"
    /\ nRuns' = nRuns + 1
    /\ stepTrace' = <<>>
    /\ logIdx' = 0

Update ==
    /\ pc = "update"
    /\ updateAgentPositions("step")
    /\ UNCHANGED <<participantData, avatarData, currentStep, maxSteps,
                   outputFile, logIdx, mainPc, nLoads, nSetups, nRuns,
                   nCompleted, stepTrace, avoidLeft, est,
                   ioLeft, notice>>

DoStep ==
    /\ pc = "step"
    /\ \E k \in GiveWayChoices :
          /\ agents' = doStep(k)
          /\ avoidLeft' = IF k = 0 THEN avoidLeft ELSE avoidLeft - 1
    /\ stepTrace' = Append(stepTrace, currentStep)
    /\ logIdx' = 0
    /\ pc' = IF IsSampled(currentStep) THEN "log" ELSE "next"
    /\ UNCHANGED <<participantData, avatarData, currentStep, maxSteps,
                   outputFile, mainPc, nLoads, nSetups, nRuns, nCompleted,
                   pushLog, fault, est,
                   ioLeft, notice>>

\* outputFile << currentStep << "," << i << ... << "\n" for agent i.  A
\* stream with its failbit set drops the row; a write can set the failbit.
LogRow ==
    /\ pc = "log"
    /\ logIdx < Len(agents)
    /\ \E ok \in (IF outputFile.failed THEN {FALSE} ELSE StreamOutcomes) :
          /\ outputFile' =
                IF ok
                THEN [outputFile EXCEPT
                         !.rows = Append(@, OutputRow(currentStep, logIdx))]
                ELSE [outputFile EXCEPT !.failed = TRUE]
          /\ ioLeft' = IF ok \/ outputFile.failed THEN ioLeft ELSE ioLeft - 1
    /\ logIdx' = logIdx + 1
    /\ UNCHANGED <<participantData, avatarData, currentStep, maxSteps, agents,
                   pc, mainPc, nLoads, nSetups, nRuns, nCompleted, pushLog,
                   stepTrace, avoidLeft, fault, est, notice>>

NextTick ==
    /\ \/ pc = "next"
       \/ pc = "log" /\ logIdx >= Len(agents)
    /\ currentStep' = currentStep + 1
    /\ pc' = IF LoopCond(currentStep + 1) THEN "update" ELSE "close"
    /\ UNCHANGED <<participantData, avatarData, maxSteps, agents, outputFile,
                   logIdx, mainPc, nLoads, nSetups, nRuns, nCompleted, pushLog,
                   stepTrace, avoidLeft, fault, est,
                   ioLeft, notice>>

\* outputFile.close() and "Simulation completed."
Finish ==
    /\ pc = "close"
    /\ outputFile' = [outputFile EXCEPT !.open = FALSE]
    /\ nCompleted' = nCompleted + 1
    /\ pc' = "idle"
    /\ UNCHANGED <<participantData, avatarData, currentStep, maxSteps, agents,
                   logIdx, mainPc, nLoads, nSetups, nRuns, pushLog, stepTrace,
                   avoidLeft, fault, est,
                   ioLeft, notice>>

\* ------------------------------------------------------------ constructor

\* ExperimentSimulation(): no agents, no samples, currentStep = maxSteps = 0.
Constructed ==
    /\ participantData = [positions |-> <<>>]
    /\ avatarData = [key \in {} |-> [positions |-> <<>>]]
    /\ currentStep = 0
    /\ maxSteps = 0
    /\ agents = <<>>
    /\ outputFile = [open |-> FALSE, header |-> FALSE, rows |-> <<>>,
                     failed |-> FALSE]
    /\ pc = "idle"
    /\ logIdx = 0
    /\ nLoads = 0
    /\ nSetups = 0
    /\ nRuns = 0
    /\ nCompleted = 0
    /\ pushLog = <<>>
    /\ stepTrace = <<>>
    /\ fault = "none"
    /\ est = [called |-> FALSE]
    /\ notice = FALSE

\* --------------------------------------------------------------------- main

\* What loadTrajectoryData(dataPath) returns: the path is not looked at, the
\* sample data are generated, and the method ends in "return true".
loadTrajectoryData == TRUE

\* if (!experiment.loadTrajectoryData("./data/")) std::cerr << "Warning:
\* Using generated sample data": the notice is printed on a false return.
MainLoad ==
    /\ mainPc = "load"
    /\ generateSampleData
    /\ notice' = (notice \/ ~loadTrajectoryData)
    /\ mainPc' = "setup"
    /\ UNCHANGED <<currentStep, agents, outputFile, pc, logIdx, nSetups, nRuns,
                   nCompleted, pushLog, stepTrace, avoidLeft, fault, est,
                   ioLeft>>

MainSetup ==
    /\ mainPc = "setup"
    /\ setupSimulation
    /\ mainPc' = "run"
    /\ UNCHANGED <<participantData, avatarData, currentStep, maxSteps,
                   outputFile, pc, logIdx, nLoads, nRuns, nCompleted, pushLog,
                   stepTrace, avoidLeft, fault, est,
                   ioLeft, notice>>

\* printSimulationStats only prints; it is part of the step to the run.
MainRun ==
    /\ mainPc = "run"
    /\ pc = "idle"
    /\ runSimulation
    /\ mainPc' = "exit"
    /\ UNCHANGED <<participantData, avatarData, maxSteps, agents, nLoads,
                   nSetups, nCompleted, pushLog, avoidLeft, fault, est,
                   notice>>

RunLoop == Update \/ DoStep \/ LogRow \/ NextTick \/ Finish

Init ==
    /\ Constructed
    /\ mainPc = "load"
    /\ avoidLeft = MaxAvoid
    /\ ioLeft = 0

Next == MainLoad \/ MainSetup \/ MainRun \/ RunLoop

\* The program: main constructs, loads, sets up and runs once.
Spec == Init /\ [][Next]_vars

\* ------------------------------------------------- a client of the class

\* The public methods called in any order, each a bounded number of times.
ClientLoad ==
    /\ mainPc = "client"
    /\ pc = "idle"
    /\ nLoads < MaxLoads
    /\ generateSampleData
    /\ UNCHANGED <<currentStep, agents, outputFile, pc, logIdx, mainPc, nSetups,
                   nRuns, nCompleted, pushLog, stepTrace, avoidLeft, fault, est,
                   ioLeft, notice>>

ClientSetup ==
    /\ mainPc = "client"
    /\ pc = "idle"
    /\ nSetups < MaxSetups
    /\ setupSimulation
    /\ UNCHANGED <<participantData, avatarData, currentStep, maxSteps,
                   outputFile, pc, logIdx, mainPc, nLoads, nRuns, nCompleted,
                   pushLog, stepTrace, avoidLeft, fault, est,
                   ioLeft, notice>>

ClientUpdate ==
    /\ mainPc = "client"
    /\ pc = "idle"
    /\ updateAgentPositions("idle")
    /\ UNCHANGED <<participantData, avatarData, currentStep, maxSteps,
                   outputFile, logIdx, mainPc, nLoads, nSetups, nRuns,
                   nCompleted, stepTrace, avoidLeft, est,
                   ioLeft, notice>>

ClientRun ==
    /\ mainPc = "client"
    /\ pc = "idle"
    /\ nRuns < MaxRuns
    /\ runSimulation
    /\ UNCHANGED <<participantData, avatarData, maxSteps, agents, mainPc,
                   nLoads, nSetups, nCompleted, pushLog, avoidLeft, fault, est,
                   notice>>

\* Here the simulator lets every agent follow its preferred velocity.
InitAPI ==
    /\ Constructed
    /\ mainPc = "client"
    /\ avoidLeft = 0
    /\ ioLeft = 0

NextAPI == ClientLoad \/ ClientSetup \/ ClientUpdate \/ ClientRun \/ RunLoop

SpecAPI == InitAPI /\ [][NextAPI]_vars

\* ---------------------------------------------- the estimator on its own

\* The points trajectories handed to the estimator are made of.
TestPoints == {<<0, 0>>, <<PosUnit, 2 * PosUnit>>, <<-3, 7>>}

TestTrajectories ==
    UNION {[1..n -> TestPoints] : n \in 0..MaxLen}

\* calculatePreferredVelocity(0, participantData) at the current tick.
Estimate ==
    /\ mainPc = "estimate"
    /\ ~est.called
    /\ \E o \in calculatePreferredVelocity(participantData, currentStep) :
          est' = [called |-> TRUE, velocity |-> o.velocity, reads |-> o.reads,
                  fault |-> o.fault]
    /\ UNCHANGED <<participantData, avatarData, currentStep, maxSteps, agents,
                   outputFile, pc, logIdx, mainPc, nLoads, nSetups, nRuns,
                   nCompleted, pushLog, stepTrace, avoidLeft, fault,
                   ioLeft, notice>>

InitEst ==
    /\ participantData \in [positions : TestTrajectories]
    /\ avatarData = [key \in {} |-> [positions |-> <<>>]]
    /\ currentStep \in 0..MaxTick
    /\ maxSteps = 0
    /\ agents = <<>>
    /\ outputFile = [open |-> FALSE, header |-> FALSE, rows |-> <<>>,
                     failed |-> FALSE]
    /\ pc = "idle"
    /\ logIdx = 0
    /\ nLoads = 0
    /\ nSetups = 0
    /\ nRuns = 0
    /\ nCompleted = 0
    /\ pushLog = <<>>
    /\ stepTrace = <<>>
    /\ avoidLeft = 0
    /\ fault = "none"
    /\ est = [called |-> FALSE]
    /\ mainPc = "estimate"
    /\ ioLeft = 0
    /\ notice = FALSE

NextEst == Estimate

SpecEst == InitEst /\ [][NextEst]_vars

\* The program under the scheduling it has: one thread that runs on until
\* main returns, so a step that can be taken is taken.
SpecFair == Spec /\ WF_vars(Next)

\* The program on a file system that can refuse simulation_output.csv, when
\* it is opened or at any row written.  The simulator lets every agent
\* follow its preferred velocity here.
InitIO ==
    /\ Constructed
    /\ mainPc = "load"
    /\ avoidLeft = 0
    /\ ioLeft = MaxIoFaults

SpecIO == InitIO /\ [][Next]_vars

\* ------------------------------------------------------------------ claims

Rows == outputFile.rows

NumAgents == Len(agents)

\* The tick handed to the estimator lies before the last sample.
BeforeLastSample == currentStep < Len(participantData.positions) - 1

\* C1: for a tick i < length(T) - 1 the estimator returns exactly
\* (T[i+1] - T[i]) / dt: the returned velocity times dt is the difference of
\* the two samples, it reads those two samples only, and nothing is undefined.
C1_FiniteDifference ==
    (est.called /\ BeforeLastSample) =>
        LET cur == participantData.positions[currentStep + 1]
            nxt == participantData.positions[currentStep + 2]
        IN  /\ est.velocity[1] * PosUnit = (nxt[1] - cur[1]) * TimeStepHz
            /\ est.velocity[2] * PosUnit = (nxt[2] - cur[2]) * TimeStepHz
            /\ est.reads = {currentStep, currentStep + 1}
            /\ est.fault = "none"

C1_Witness ==
    /\ est.called
    /\ BeforeLastSample
    /\ currentStep > 0
    /\ est.velocity # Zero

\* C2: for every trajectory, lengths 0 and 1 included, and every tick
\* i >= length(T) - 1, the estimator returns the zero vector and reads no
\* sample.
C2_ZeroPastEnd ==
    (est.called /\ ~BeforeLastSample) =>
        /\ est.velocity = Zero
        /\ est.reads = {}
        /\ est.fault = "none"

\* C3: whenever the run loop is about to call doStep, a preferred velocity was
\* pushed in this tick, by the updateAgentPositions call just before, for
\* every agent registered with the simulator.
C3_AllPushedBeforeAdvance ==
    pc = "step" =>
        \A h \in 0..(NumAgents - 1) :
            \E k \in 1..Len(pushLog) : pushLog[k].handle = h /\ pushLog[k].landed

C3_Witness ==
    /\ pc = "step"
    /\ NumAgents = NumAvatars + 2
    /\ currentStep = maxSteps - 1

\* C4: after setup with the participant, N avatars and one goal, handles 0..N
\* are the participant and the avatars in ordinal order, each at sample 0 of
\* its trajectory (until the first advance moves it), and handle N + 1 is the
\* goal, whose maximum speed is 0.
C4_RegistrationOrder ==
    nSetups = 1 =>
        LET present == {a \in Avatars :
                           /\ AvatarKey(a) \in DOMAIN avatarData
                           /\ avatarData[AvatarKey(a)].positions # <<>>}
            n == Cardinality(present)
        IN  /\ participantData.positions # <<>>
            /\ present = 1..n
            /\ NumAgents = n + 2
            /\ \A h \in 0..n : agents[h + 1].maxSpeed = MAX_SPEED
            /\ agents[n + 2].maxSpeed = 0
            /\ nRuns = 0 =>
                  /\ agents[1].position = participantData.positions[1]
                  /\ \A a \in present :
                        agents[a + 1].position =
                            avatarData[AvatarKey(a)].positions[1]
                  /\ agents[n + 2].position = GoalPos

C4_Witness ==
    /\ nSetups = 1
    /\ nRuns = 0
    /\ NumAgents = NumAvatars + 2
    /\ agents[2].position # agents[3].position

\* C5: a run with tick budget B = maxSteps terminates, and by then doStep was
\* called exactly B times, once for each currentStep 0, 1, ..., B - 1 in this
\* order; there is no early exit.
C5_TickBudget ==
    /\ [](/\ Len(stepTrace) <= maxSteps
          /\ \A k \in 1..Len(stepTrace) : stepTrace[k] = k - 1
          /\ nCompleted = 1 => Len(stepTrace) = maxSteps)
    /\ <>(nCompleted = 1 /\ pc = "idle")

C5_Witness ==
    /\ nCompleted = 1
    /\ Len(stepTrace) = GenSteps
    /\ avoidLeft < MaxAvoid

\* The row of step 0 for agent handle 0, where one was written.
FirstParticipantRows == {k \in 1..Len(Rows) : Rows[k].step = 0 /\ Rows[k].agent_id = 0}

\* C6 as stated: the row with step = 0 for the participant (handle 0) has the
\* position of sample 0 of the participant's trajectory.
C6_RowZeroIsSampleZero ==
    \A k \in FirstParticipantRows :
        <<Rows[k].x, Rows[k].y>> = participantData.positions[1]

\* C6 as amended: the row with step = 0 for the participant is taken after the
\* first advance: its position is sample 0 displaced by one time step of the
\* velocity in the same row.
C6_RowZeroIsSampleZeroAdvanced ==
    \A k \in FirstParticipantRows :
        /\ (Rows[k].x - participantData.positions[1][1]) * TimeStepHz
               = Rows[k].vx * PosUnit
        /\ (Rows[k].y - participantData.positions[1][2]) * TimeStepHz
               = Rows[k].vy * PosUnit

C6_Witness ==
    \E k \in FirstParticipantRows :
        <<Rows[k].x, Rows[k].y>> # participantData.positions[1]

\* Rows written for a (step, agent) pair.
RowsOf(step, h) == {k \in 1..Len(Rows) : Rows[k].step = step /\ Rows[k].agent_id = h}

CeilDiv(a, b) == (a + b - 1) \div b

\* C7: a completed run with tick budget B emits exactly ceil(B/10) x A rows,
\* A the number of registered agents: one row for each agent and each step in
\* {0, 10, 20, ...} below B, and no row for any other step.
C7_RowCount ==
    nCompleted = 1 =>
        /\ Len(Rows) = CeilDiv(maxSteps, 10) * NumAgents
        /\ \A k \in 1..Len(Rows) :
              /\ Rows[k].step \in 0..(maxSteps - 1)
              /\ Rows[k].agent_id \in 0..(NumAgents - 1)
        /\ \A step \in 0..(maxSteps - 1), h \in 0..(NumAgents - 1) :
              Cardinality(RowsOf(step, h)) = IF step % 10 = 0 THEN 1 ELSE 0

C7_Witness ==
    /\ nCompleted = 1
    /\ maxSteps > 10
    /\ Len(Rows) = 2 * (NumAvatars + 2)

\* C8: at every point of the run the rows written so far are strictly
\* increasing in (step, agent_id): ordered by step, then by agent_id, and no
\* pair twice.
C8_RowsSorted ==
    \A k \in 1..(Len(Rows) - 1) :
        \/ Rows[k].step < Rows[k + 1].step
        \/ /\ Rows[k].step = Rows[k + 1].step
           /\ Rows[k].agent_id < Rows[k + 1].agent_id

C8_Witness ==
    /\ pc = "log"
    /\ currentStep > 0
    /\ logIdx > 1

\* The handle setup gave the goal agent: the last one registered.
GoalAgentHandle == NumAgents - 1

\* C9: the goal is registered with maximum speed 0 before the first tick, the
\* only preferred velocity ever pushed to its handle is the zero vector, and
\* (the simulator keeping every agent within its maximum speed) every row of
\* the goal has velocity (0, 0).
C9_GoalStaysStill ==
    nSetups >= 1 =>
        /\ agents[GoalAgentHandle + 1].maxSpeed = 0
        /\ agents[GoalAgentHandle + 1].prefVelocity = Zero
        /\ \A k \in 1..Len(pushLog) :
              pushLog[k].handle = GoalAgentHandle => pushLog[k].velocity = Zero
        /\ pc \in {"step", "log", "next"} =>
              \E k \in 1..Len(pushLog) : pushLog[k].handle = GoalAgentHandle
        /\ \A k \in 1..Len(Rows) :
              Rows[k].agent_id = GoalAgentHandle =>
                  Rows[k].vx = 0 /\ Rows[k].vy = 0

C9_Witness ==
    \E k \in 1..Len(Rows) :
        /\ Rows[k].agent_id = GoalAgentHandle
        /\ Rows[k].step > 0
        /\ Rows[k].agent_id = GoalHandle

\* C10: while setupSimulation has never been called, no preferred velocity is
\* pushed, no advance is issued, no row is written and no run reports
\* completion.
C10_NotInitialized ==
    nSetups = 0 =>
        /\ pushLog = <<>>
        /\ stepTrace = <<>>
        /\ Rows = <<>>
        /\ nCompleted = 0

\* C11: a run started with maxSteps = 0 pushes no preferred velocity, issues
\* no advance, writes the header row and no tick row, meets nothing
\* undefined, and goes straight to closing the file and reporting completion.
C11_EmptyBudgetRun ==
    (maxSteps = 0 /\ nRuns >= 1) =>
        /\ pushLog = <<>>
        /\ stepTrace = <<>>
        /\ outputFile.header
        /\ Rows = <<>>
        /\ fault = "none"
        /\ pc \in {"close", "idle"}
        /\ pc = "idle" => nCompleted = nRuns

C11_Witness ==
    /\ maxSteps = 0
    /\ nSetups >= 1
    /\ nRuns = 1
    /\ nCompleted = 1
    /\ outputFile.header
    /\ Rows = <<>>

\* C14: once the output stream has failed (it could not be opened, or a row
\* could not be written), the run is aborted: no further advance is issued,
\* no run reports completion, and the rows already in the file stay as they
\* are.
C14_WriteFailureAborts ==
    [][outputFile.failed =>
          /\ stepTrace' = stepTrace
          /\ nCompleted' = nCompleted
          /\ Rows' = Rows]_vars

\* C15: whenever setup is reached with trajectories that came from the
\* synthetic generator, the degraded-mode notice has been printed before.
C15_NoticeBeforeSetup ==
    (nLoads >= 1 /\ mainPc \in {"run", "exit"}) => notice

\* The sample counts of all trajectories held.
SampleCounts ==
    {Len(participantData.positions)}
        \cup {Len(avatarData[key].positions) : key \in DOMAIN avatarData}

\* C16: once trajectories have been generated, every trajectory has exactly
\* maxSteps samples, whatever is called afterwards (setup, tick, run, or a
\* further loadTrajectoryData on the same simulation).
C16_SampleCountFixed ==
    nLoads >= 1 => SampleCounts = {maxSteps}

\* The handles, in the order registered, with what each was registered for.
RolesOf(ags) == [i \in 1..Len(ags) |-> ags[i].role]

\* The handles the file holds rows of for a step.
HandlesAt(step) == {Rows[k].agent_id : k \in {j \in 1..Len(Rows) : Rows[j].step = step}}

\* The sampled steps of the run under way whose rows are all written.
LoggedSteps ==
    {s \in 0..currentStep :
        /\ IsSampled(s)
        /\ \/ s < currentStep
           \/ pc = "log" /\ logIdx >= NumAgents}

\* C17: no step of a run (its start, a tick's pushes, an advance, a row
\* written, the step to the next tick, the close) adds or removes an agent
\* or changes what a handle was registered for, and every sampled tick of a
\* run has rows for the same handles, those of all registered agents.
C17_AgentSetFixed ==
    /\ [][(pc # "idle" \/ pc' # "idle") => RolesOf(agents') = RolesOf(agents)]_vars
    /\ [](pc # "idle" =>
             \A s \in LoggedSteps : HandlesAt(s) = 0..(NumAgents - 1))

C17_Witness ==
    /\ pc = "close"
    /\ nSetups >= 1
    /\ Cardinality(LoggedSteps) >= 2
    /\ NumAgents = NumAvatars + 2
    /\ \A s \in LoggedSteps : HandlesAt(s) = 0..GoalHandle

\* C18: once setupSimulation has been called, every preferred velocity a
\* tick pushes goes to a handle that was registered, and registered for the
\* role the velocity is for: the participant's to the participant (0),
\* avatar k's to avatar k (k), and the goal's zero vector (11) to the goal,
\* whose maximum speed is 0; in any order and repetition of load, setup,
\* tick and run.
C18_HandlesMatchRoles ==
    nSetups >= 1 =>
        \A k \in 1..Len(pushLog) :
            /\ pushLog[k].landed
            /\ agents[pushLog[k].handle + 1].role = pushLog[k].role
            /\ pushLog[k].role = GoalRole =>
                   agents[pushLog[k].handle + 1].maxSpeed = 0

\* C19: every sample a tick's estimator calls read lies inside the
\* trajectory read (0 <= index < size), the samples read at a tick are
\* none or those at currentStep and currentStep + 1, and
\* 0 <= currentStep <= maxSteps in every state.
C19_ReadsInBounds ==
    /\ \A k \in 1..Len(pushLog) :
          /\ \A i \in pushLog[k].reads : 0 <= i /\ i < pushLog[k].size
          /\ pc = "step" =>
                 pushLog[k].reads \in {{}, {currentStep, currentStep + 1}}
    /\ 0 <= currentStep
    /\ currentStep <= maxSteps

C19_Witness ==
    /\ pc = "step"
    /\ currentStep = maxSteps - 2
    /\ \E k \in 1..Len(pushLog) :
          /\ pushLog[k].role = ParticipantRole
          /\ pushLog[k].reads = {currentStep, currentStep + 1}
          /\ pushLog[k].size = maxSteps

====
